---------------------------- MODULE Spec2Model ----------------------------
(***************************************************************************)
(* Model of the Procedural Stockflow Optimization Engine (PSOE):           *)
(* psoe_optimization_engine.py.  One behaviour is one execution of the     *)
(* __main__ block: budget prompt, first fetch, greedy run, baseline run,   *)
(* second fetch, logged greedy pass, report.                               *)
(*                                                                         *)
(* Numbers.  The program computes with Python floats (binary floating      *)
(* point, round-to-nearest-even).  The model keeps that arithmetic with    *)
(* the significand narrowed from 53 bits to Prec bits: every float is an   *)
(* integer number of money units and every float operation rounds its      *)
(* exact result to Prec significant bits, ties to even.  Results that fit  *)
(* in Prec bits are exact, as in the program.                              *)
(***************************************************************************)
EXTENDS Integers, Sequences, FiniteSets, TLC

\* Largest number of rows the low-stock query returns.
MaxItems == 3
\* Width of the float significand in bits (53 in CPython).
Prec == 8

-----------------------------------------------------------------------------
(* Float arithmetic                                                        *)

RECURSIVE Pow2(_)
Pow2(k) == IF k <= 0 THEN 1 ELSE 2 * Pow2(k - 1)

Abs(n) == IF n < 0 THEN -n ELSE n

Sgn(n) == IF n < 0 THEN -1 ELSE IF n > 0 THEN 1 ELSE 0

RECURSIVE BitLen(_)
BitLen(n) == IF n <= 0 THEN 0 ELSE 1 + BitLen(n \div 2)

\* num / den (den > 0, num >= 0) rounded to the nearest integer, ties to even.
DivHalfEven(num, den) ==
    LET q == num \div den
        r == num % den
    IN  IF 2 * r > den \/ (2 * r = den /\ q % 2 = 1) THEN q + 1 ELSE q

\* The float nearest to the exact integer n: n kept to Prec significant bits.
RoundNearestEven(n) ==
    LET a  == Abs(n)
        bl == BitLen(a)
    IN  IF bl <= Prec THEN n
        ELSE Sgn(n) * DivHalfEven(a, Pow2(bl - Prec)) * Pow2(bl - Prec)

Round(n) == RoundNearestEven(n)

FAdd(a, b) == Round(a + b)
FSub(a, b) == Round(a - b)
FMul(a, b) == Round(a * b)

\* The least k >= 0 with n * 2^k >= 2^(Prec-1) * d, for n, d > 0.
RECURSIVE ScaleUp(_, _)
ScaleUp(n, d) == IF n >= Pow2(Prec - 1) * d THEN 0 ELSE 1 + ScaleUp(2 * n, d)

\* The least k >= 0 with n < 2^Prec * d * 2^k, for n, d > 0.
RECURSIVE ScaleDown(_, _)
ScaleDown(n, d) == IF n < Pow2(Prec) * d THEN 0 ELSE 1 + ScaleDown(n, 2 * d)

\* Float quotient a / b for b > 0, as <<m, e>> meaning m * 2^e with m kept
\* to Prec bits (2^(Prec-1) <= |m| < 2^Prec), or <<0, 0>> for zero.
FDiv(a, b) ==
    IF a = 0 THEN <<0, 0>>
    ELSE LET n    == Abs(a)
             down == ScaleDown(n, b)
             up   == ScaleUp(n, b)
             m    == DivHalfEven(n * Pow2(up), b * Pow2(down))
         IN  IF m = Pow2(Prec) THEN <<Sgn(a) * Pow2(Prec - 1), down - up + 1>>
                               ELSE <<Sgn(a) * m, down - up>>

\* x < y for two quotients of FDiv.
QLess(x, y) ==
    LET sx == Sgn(x[1])
        sy == Sgn(y[1])
    IN  IF sx # sy THEN sx < sy
        ELSE IF sx = 0 THEN FALSE
        ELSE IF sx > 0
             THEN x[2] < y[2] \/ (x[2] = y[2] /\ x[1] < y[1])
             ELSE x[2] > y[2] \/ (x[2] = y[2] /\ x[1] < y[1])

\* Python round() of a float given in halves: nearest integer, ties to even.
PyRound(halves) ==
    LET lo == halves \div 2
    IN  IF halves % 2 = 0 THEN lo
        ELSE IF lo % 2 = 0 THEN lo ELSE lo + 1

-----------------------------------------------------------------------------
(* Upstream data                                                           *)

\* Rows of table inventory_data with current_stock < low_stock_threshold,
\* listed in product_name order.  reorder_quantity is the stored decimal in
\* halves (19 is 9.5); unit_cost and unit_price are in money units.
Catalog ==
    << [product_id |-> 1, product_name |-> "A", reorder_quantity |-> 2,
        unit_cost |-> 3, unit_price |-> 6],
       [product_id |-> 2, product_name |-> "F", reorder_quantity |-> 20,
        unit_cost |-> 0, unit_price |-> 3],
       [product_id |-> 3, product_name |-> "L", reorder_quantity |-> 20,
        unit_cost |-> 5, unit_price |-> 3],
       [product_id |-> 4, product_name |-> "N", reorder_quantity |-> -20,
        unit_cost |-> 5, unit_price |-> 7],
       [product_id |-> 5, product_name |-> "V", reorder_quantity |-> 20,
        unit_cost |-> 18, unit_price |-> 27],
       [product_id |-> 6, product_name |-> "X", reorder_quantity |-> 20,
        unit_cost |-> 10, unit_price |-> 19],
       [product_id |-> 7, product_name |-> "Y", reorder_quantity |-> 19,
        unit_cost |-> 6, unit_price |-> 9],
       [product_id |-> 8, product_name |-> "Z", reorder_quantity |-> 21,
        unit_cost |-> 5, unit_price |-> 7] >>

\* The rows of Catalog at the positions in S, in Catalog (name) order.
RECURSIVE RowsAt(_, _)
RowsAt(S, k) ==
    IF k > Len(Catalog) THEN << >>
    ELSE IF k \in S THEN << Catalog[k] >> \o RowsAt(S, k + 1)
    ELSE RowsAt(S, k + 1)

\* Every table content the query can return: at most MaxItems rows, by name.
Tables ==
    { RowsAt(S, 1) : S \in { T \in SUBSET (1 .. Len(Catalog)) :
                                 Cardinality(T) <= MaxItems } }

\* What the operator can type at the budget prompt.
BudgetInputs ==
    { [kind |-> "number", text |-> v] : v \in {-50, 0, 100, 150, 282} }
        \cup { [kind |-> "word", text |-> 0], [kind |-> "eof", text |-> 0] }

-----------------------------------------------------------------------------
(* class Product                                                           *)

\* Product.__init__: float()/round() conversions and the derived values.
Product(row) ==
    LET reorder_quantity == PyRound(Round(row.reorder_quantity))
        unit_cost        == Round(row.unit_cost)
        unit_price       == Round(row.unit_price)
    IN  [product_id       |-> row.product_id,
         name             |-> row.product_name,
         reorder_quantity |-> reorder_quantity,
         unit_cost        |-> unit_cost,
         unit_price       |-> unit_price,
         order_cost       |-> FMul(reorder_quantity, unit_cost),
         order_value      |-> FMul(reorder_quantity,
                                   FSub(unit_price, unit_cost))]

\* Product.calculate_priority_score: profit / cost, 0.0 when cost is not > 0.
calculate_priority_score(item) ==
    IF item.order_cost > 0 THEN FDiv(item.order_value, item.order_cost)
    ELSE <<0, 0>>

\* [Product(row) for row in rows]
RECURSIVE Products(_)
Products(rows) ==
    IF rows = << >> THEN << >>
    ELSE << Product(Head(rows)) >> \o Products(Tail(rows))

-----------------------------------------------------------------------------
(* sorted() and list.sort(): stable sorts                                  *)

\* key(a) > key(b) for the greedy ranking (reverse=True).
PriorityBefore(a, b) ==
    QLess(calculate_priority_score(b), calculate_priority_score(a))

\* key(a) < key(b) for the baseline ranking (reverse=False).
CostBefore(a, b) == a.order_cost < b.order_cost

\* The strict order of one of the program's rankings.
Before(ranking, a, b) ==
    IF ranking = "priority_desc" THEN PriorityBefore(a, b)
    ELSE CostBefore(a, b)

\* x placed in an already sorted list: before the first element it must
\* precede, hence after every element with an equal key.
RECURSIVE InsertStable(_, _, _)
InsertStable(ranking, x, s) ==
    IF s = << >> THEN << x >>
    ELSE IF Before(ranking, x, Head(s)) THEN << x >> \o s
    ELSE << Head(s) >> \o InsertStable(ranking, x, Tail(s))

RECURSIVE SortStable(_, _, _)
SortStable(ranking, done, rest) ==
    IF rest = << >> THEN done
    ELSE SortStable(ranking, InsertStable(ranking, Head(rest), done),
                    Tail(rest))

RECURSIVE Reverse(_)
Reverse(s) == IF s = << >> THEN << >> ELSE Reverse(Tail(s)) \o << Head(s) >>

\* Faulty variant of SortByPriorityDesc: ascending scores.
SortByPriorityAsc(list) == Reverse(SortStable("priority_desc", << >>, list))

\* Faulty variant of SortByPriorityDesc: descending scores, but equal scores
\* come out in the reverse of their input order.
SortByPriorityDescTiesReversed(list) ==
    SortStable("priority_desc", << >>, Reverse(list))

\* sorted(inventory_list, key=priority score, reverse=True)
SortByPriorityDesc(list) == SortStable("priority_desc", << >>, list)

\* sorted(inventory_list, key=order_cost, reverse=False)
SortByCostAsc(list) == SortStable("cost_asc", << >>, list)

-----------------------------------------------------------------------------
(* Program state                                                           *)

VARIABLES
    pc,                     \* position in the __main__ block
    db,                     \* rows the low-stock query returns right now
    budget_str,             \* get_budget_input: the text typed last
    DAILY_BUDGET,           \* the budget get_budget_input returned
    inventory_items,        \* Products of the first fetch
    all_items_ranked,       \* report_data['all_items_ranked']
    sorted_list,            \* run_daa/run_baseline: the ranked copy
    idx,                    \* run_daa/run_baseline: next position of the loop
    current_budget,         \* run_daa/run_baseline: local current_budget
    total_cost_spent,       \* run_daa/run_baseline: local total_cost_spent
    total_expected_profit,  \* run_daa/run_baseline: local total_expected_profit
    optimized,              \* (optimized_profit, optimized_cost)
    baseline,               \* (baseline_profit, baseline_cost)
    final_inventory,        \* Products of the second fetch
    final_idx,              \* next position of the final loop
    selected,
    rejected,
    final_budget,           \* __main__'s current_budget
    total_cost_spent_final,
    total_expected_profit_final,
    log_calls,              \* calls of log_order_decision, in order
    db_changed              \* another client has written inventory_data

vars == << pc, db, budget_str, DAILY_BUDGET, inventory_items, all_items_ranked, sorted_list, idx,
           current_budget, total_cost_spent, total_expected_profit,
           optimized, baseline, final_inventory, final_idx, selected,
           rejected, final_budget, total_cost_spent_final,
           total_expected_profit_final, log_calls, db_changed >>

mainVars  == << budget_str, DAILY_BUDGET, inventory_items, all_items_ranked >>
frameVars == << sorted_list, idx, current_budget, total_cost_spent,
                total_expected_profit >>
finalVars == << final_inventory, final_idx, selected, rejected, final_budget,
                total_cost_spent_final, total_expected_profit_final,
                log_calls >>

\* A returned (profit, cost) pair that has not been assigned yet.
Unset == [profit |-> 0, cost |-> 0]

Init ==
    /\ pc = "get_budget_input"
    /\ db \in Tables
    /\ budget_str = [kind |-> "none", text |-> 0]
    /\ DAILY_BUDGET = 0
    /\ inventory_items = << >>
    /\ all_items_ranked = << >>
    /\ sorted_list = << >>
    /\ idx = 1
    /\ current_budget = 0
    /\ total_cost_spent = 0
    /\ total_expected_profit = 0
    /\ optimized = Unset
    /\ baseline = Unset
    /\ final_inventory = << >>
    /\ final_idx = 1
    /\ selected = << >>
    /\ rejected = << >>
    /\ final_budget = 0
    /\ total_cost_spent_final = 0
    /\ total_expected_profit_final = 0
    /\ log_calls = << >>
    /\ db_changed = FALSE

-----------------------------------------------------------------------------
(* get_budget_input                                                        *)

\* Faulty variant of BudgetAccepted: no range test.
BudgetAcceptedAny(budget) == TRUE

\* budget >= 0, the test that lets a typed budget through.
BudgetAccepted(budget) == budget >= 0

\* One turn of the prompt loop: input(), float(), the range test.
GetBudgetInput ==
    /\ pc = "get_budget_input"
    /\ \E typed \in BudgetInputs :
          IF typed.kind = "eof"
          THEN \* input() raises EOFError, which nothing catches
               /\ pc' = "crashed"
               /\ UNCHANGED << budget_str, DAILY_BUDGET >>
          ELSE IF typed.kind = "word"
          THEN \* float() raises ValueError: prompt again
               /\ budget_str' = typed
               /\ UNCHANGED << pc, DAILY_BUDGET >>
          ELSE LET budget == Round(typed.text)
               IN  /\ budget_str' = typed
                   /\ IF BudgetAccepted(budget)
                      THEN /\ DAILY_BUDGET' = budget
                           /\ pc' = "fetch"
                      ELSE UNCHANGED << pc, DAILY_BUDGET >>
    /\ UNCHANGED << db, db_changed, inventory_items, all_items_ranked,
                    optimized, baseline >>
    /\ UNCHANGED frameVars
    /\ UNCHANGED finalVars

-----------------------------------------------------------------------------
(* fetch_low_stock_products                                                *)

\* How one call can end: the list it returns, or the process exit.
\*   ok          every row became a Product
\*   operational psycopg2.OperationalError: sys.exit(1)
\*   error       any other exception after k rows were appended: the
\*               function prints it and returns the k Products built so far
FetchOutcomes(rows) ==
    { [kind |-> "ok", list |-> Products(rows)],
      [kind |-> "operational", list |-> << >>] }
        \cup { [kind |-> "error", list |-> Products(SubSeq(rows, 1, k))] :
                  k \in 0 .. (Len(rows) - 1) }

\* if not inventory_items: sys.exit(0)
NothingToOptimize(list) == list = << >>

\* inventory_items = fetch_low_stock_products(DB_PARAMS) and the empty test.
FetchFirst ==
    /\ pc = "fetch"
    /\ \E out \in FetchOutcomes(db) :
          IF out.kind = "operational"
          THEN /\ pc' = "exit_1"
               /\ UNCHANGED inventory_items
          ELSE /\ inventory_items' = out.list
               /\ pc' = IF NothingToOptimize(out.list) THEN "exit_0"
                        ELSE "daa_call"
    /\ UNCHANGED << db, db_changed, budget_str, DAILY_BUDGET,
                    all_items_ranked, optimized, baseline >>
    /\ UNCHANGED frameVars
    /\ UNCHANGED finalVars

-----------------------------------------------------------------------------
(* run_daa_optimization and run_baseline_optimization                      *)

\* Faulty variant of Affordable: a strict comparison.
AffordableStrict(cost, budget) == cost < budget

\* if cost <= current_budget
Affordable(cost, budget) == cost <= budget

\* Faulty variant of AllocateOne: the profit total grows by the cost.
AllocateOneCostAsProfit(item) ==
    IF Affordable(item.order_cost, current_budget)
    THEN /\ current_budget' = FSub(current_budget, item.order_cost)
         /\ total_cost_spent' = FAdd(total_cost_spent, item.order_cost)
         /\ total_expected_profit' =
                FAdd(total_expected_profit, item.order_cost)
    ELSE UNCHANGED << current_budget, total_cost_spent,
                      total_expected_profit >>

\* The body of the allocation loop for one item.
AllocateOne(item) ==
    IF Affordable(item.order_cost, current_budget)
    THEN /\ current_budget' = FSub(current_budget, item.order_cost)
         /\ total_cost_spent' = FAdd(total_cost_spent, item.order_cost)
         /\ total_expected_profit' =
                FAdd(total_expected_profit, item.order_value)
    ELSE UNCHANGED << current_budget, total_cost_spent,
                      total_expected_profit >>

\* Faulty variant of EnterFrame: the spent total starts at the budget.
EnterFrameSpentIsBudget(ranked, budget_limit) ==
    /\ sorted_list' = ranked
    /\ idx' = 1
    /\ current_budget' = budget_limit
    /\ total_cost_spent' = budget_limit
    /\ total_expected_profit' = 0

\* Entry of either function after its sorted(): the three initial locals.
EnterFrame(ranked, budget_limit) ==
    /\ sorted_list' = ranked
    /\ idx' = 1
    /\ current_budget' = budget_limit
    /\ total_cost_spent' = 0
    /\ total_expected_profit' = 0

\* run_daa_optimization(inventory_items.copy(), DAILY_BUDGET): entry.
DaaCall ==
    /\ pc = "daa_call"
    /\ EnterFrame(SortByPriorityDesc(inventory_items), DAILY_BUDGET)
    /\ pc' = "daa_loop"
    /\ UNCHANGED << db, db_changed, optimized, baseline >>
    /\ UNCHANGED mainVars
    /\ UNCHANGED finalVars

\* run_daa_optimization: one iteration of "for item in sorted_list".
DaaStep ==
    /\ pc = "daa_loop"
    /\ idx <= Len(sorted_list)
    /\ AllocateOne(sorted_list[idx])
    /\ idx' = idx + 1
    /\ UNCHANGED << pc, db, db_changed, sorted_list, optimized, baseline >>
    /\ UNCHANGED mainVars
    /\ UNCHANGED finalVars

\* run_daa_optimization: return total_expected_profit, total_cost_spent.
DaaReturn ==
    /\ pc = "daa_loop"
    /\ idx > Len(sorted_list)
    /\ optimized' = [profit |-> total_expected_profit,
                     cost |-> total_cost_spent]
    /\ pc' = "baseline_call"
    /\ UNCHANGED << db, db_changed, baseline >>
    /\ UNCHANGED mainVars
    /\ UNCHANGED frameVars
    /\ UNCHANGED finalVars

\* run_baseline_optimization(inventory_items.copy(), DAILY_BUDGET): entry.
BaselineCall ==
    /\ pc = "baseline_call"
    /\ EnterFrame(SortByCostAsc(inventory_items), DAILY_BUDGET)
    /\ pc' = "baseline_loop"
    /\ UNCHANGED << db, db_changed, optimized, baseline >>
    /\ UNCHANGED mainVars
    /\ UNCHANGED finalVars

\* run_baseline_optimization: one iteration of "for item in sorted_list".
BaselineStep ==
    /\ pc = "baseline_loop"
    /\ idx <= Len(sorted_list)
    /\ AllocateOne(sorted_list[idx])
    /\ idx' = idx + 1
    /\ UNCHANGED << pc, db, db_changed, sorted_list, optimized, baseline >>
    /\ UNCHANGED mainVars
    /\ UNCHANGED finalVars

\* run_baseline_optimization: return.
BaselineReturn ==
    /\ pc = "baseline_loop"
    /\ idx > Len(sorted_list)
    /\ baseline' = [profit |-> total_expected_profit,
                    cost |-> total_cost_spent]
    /\ pc' = "final_fetch"
    /\ UNCHANGED << db, db_changed, optimized >>
    /\ UNCHANGED mainVars
    /\ UNCHANGED frameVars
    /\ UNCHANGED finalVars

-----------------------------------------------------------------------------
(* Other clients of the database                                           *)

RECURSIVE Without(_, _)
Without(rows, k) ==
    IF rows = << >> THEN << >>
    ELSE IF k = 1 THEN Tail(rows)
    ELSE << Head(rows) >> \o Without(Tail(rows), k - 1)

\* Between the two fetches a product is restocked and leaves the low-stock
\* result (the two fetches are separate queries on separate connections).
DbChange ==
    /\ pc = "final_fetch"
    /\ ~db_changed
    /\ \E k \in 1 .. Len(db) : db' = Without(db, k)
    /\ db_changed' = TRUE
    /\ UNCHANGED << pc, optimized, baseline >>
    /\ UNCHANGED mainVars
    /\ UNCHANGED frameVars
    /\ UNCHANGED finalVars

-----------------------------------------------------------------------------
(* log_order_decision                                                      *)

\* How one call can end.
\*   written          INSERT and commit succeeded
\*   connect_error    psycopg2.connect raised: conn is None, nothing to undo
\*   statement_error  execute/commit raised on a live connection: rollback
\*   connection_lost  execute/commit raised because the connection broke:
\*                    conn.rollback() in the except clause raises
\*                    psycopg2.InterfaceError (connection already closed),
\*                    which leaves the function
LogOutcomes ==
    { "written", "connect_error", "statement_error", "connection_lost" }

\* The exception, if any, leaves log_order_decision.
LogRaises(outcome) == outcome = "connection_lost"

\* What log_order_decision hands back to its caller when it returns.
LogReturnValue(outcome) == "None"

\* One call: the row it tries to INSERT, whether the row was persisted, and
\* the value the caller got back.
LogOrderDecision(product, status, budget_cost, run_type, outcome) ==
    [product_id     |-> product.product_id,
     order_quantity |-> Round(product.reorder_quantity),
     budget_cost    |-> Round(budget_cost),
     status         |-> status,
     run_type       |-> run_type,
     persisted      |-> outcome = "written",
     returned       |-> IF LogRaises(outcome) THEN "raised"
                        ELSE LogReturnValue(outcome)]

-----------------------------------------------------------------------------
(* __main__: the final, logged allocation                                  *)

\* final_inventory = fetch_low_stock_products(DB_PARAMS)
FetchFinal ==
    /\ pc = "final_fetch"
    /\ \E out \in FetchOutcomes(db) :
          IF out.kind = "operational"
          THEN /\ pc' = "exit_1"
               /\ UNCHANGED final_inventory
          ELSE /\ final_inventory' = out.list
               /\ pc' = "final_sort"
    /\ UNCHANGED << db, db_changed, optimized, baseline, final_idx, selected,
                    rejected, final_budget, total_cost_spent_final,
                    total_expected_profit_final, log_calls >>
    /\ UNCHANGED mainVars
    /\ UNCHANGED frameVars

\* final_inventory.sort(...) and the initial values of the final loop.
FinalSort ==
    /\ pc = "final_sort"
    /\ final_inventory' = SortByPriorityDesc(final_inventory)
    /\ selected' = << >>
    /\ rejected' = << >>
    /\ final_budget' = DAILY_BUDGET
    /\ total_cost_spent_final' = 0
    /\ total_expected_profit_final' = 0
    /\ final_idx' = 1
    /\ pc' = "final_loop"
    /\ UNCHANGED << db, db_changed, optimized, baseline, log_calls >>
    /\ UNCHANGED mainVars
    /\ UNCHANGED frameVars

\* One iteration of "for item in final_inventory", log call included.
FinalStep ==
    /\ pc = "final_loop"
    /\ final_idx <= Len(final_inventory)
    /\ \E outcome \in LogOutcomes :
          LET item == final_inventory[final_idx]
              cost == item.order_cost
          IN  /\ IF Affordable(cost, final_budget)
                 THEN /\ selected' = Append(selected, item)
                      /\ final_budget' = FSub(final_budget, cost)
                      /\ total_cost_spent_final' =
                             FAdd(total_cost_spent_final, cost)
                      /\ total_expected_profit_final' =
                             FAdd(total_expected_profit_final,
                                  item.order_value)
                      /\ log_calls' = Append(log_calls,
                             LogOrderDecision(item, "SELECTED", cost,
                                              "OPTIMIZED", outcome))
                      /\ UNCHANGED rejected
                 ELSE /\ rejected' = Append(rejected, item)
                      /\ log_calls' = Append(log_calls,
                             LogOrderDecision(item, "REJECTED", 0,
                                              "OPTIMIZED", outcome))
                      /\ UNCHANGED << selected, final_budget,
                                      total_cost_spent_final,
                                      total_expected_profit_final >>
              /\ IF LogRaises(outcome)
                 THEN /\ pc' = "crashed"
                      /\ UNCHANGED final_idx
                 ELSE /\ pc' = pc
                      /\ final_idx' = final_idx + 1
    /\ UNCHANGED << db, db_changed, optimized, baseline, final_inventory >>
    /\ UNCHANGED mainVars
    /\ UNCHANGED frameVars

\* End of the final loop: "Final DAA Allocation Complete".
FinalDone ==
    /\ pc = "final_loop"
    /\ final_idx > Len(final_inventory)
    /\ pc' = "report"
    /\ UNCHANGED << db, db_changed, optimized, baseline >>
    /\ UNCHANGED mainVars
    /\ UNCHANGED frameVars
    /\ UNCHANGED finalVars

\* df_all[['name', 'priority_score', 'order_cost']], built from the
\* get_dict() of every Product of the first fetch.
RECURSIVE DfAll(_)
DfAll(list) ==
    IF list = << >> THEN << >>
    ELSE << [name           |-> Head(list).name,
             priority_score |-> calculate_priority_score(Head(list)),
             order_cost     |-> Head(list).order_cost] >>
         \o DfAll(Tail(list))

\* Faulty variant of SortValuesDescending: the frame is left as it is.
SortValuesNone(frame) == { frame }

\* DataFrame.sort_values(by='priority_score', ascending=False) with the
\* default kind='quicksort', which is not a stable sort: every arrangement
\* of the rows with scores descending is a possible result.
SortValuesDescending(frame) ==
    LET n     == Len(frame)
        perms == { f \in [1 .. n -> 1 .. n] :
                      \A i, j \in 1 .. n : i # j => f[i] # f[j] }
    IN  { [k \in 1 .. n |-> frame[f[k]]] : f \in
            { g \in perms : \A i, j \in 1 .. n : i < j =>
                 ~QLess(frame[g[i]].priority_score,
                        frame[g[j]].priority_score) } }

\* Charts and the Markdown report: report_data is assembled from the results
\* of the logged pass and the ranked frame of the first fetch.
Report ==
    /\ pc = "report"
    /\ all_items_ranked' \in SortValuesDescending(DfAll(inventory_items))
    /\ pc' = "done"
    /\ UNCHANGED << db, db_changed, optimized, baseline, budget_str,
                    DAILY_BUDGET, inventory_items >>
    /\ UNCHANGED frameVars
    /\ UNCHANGED finalVars

-----------------------------------------------------------------------------

Next ==
    \/ GetBudgetInput
    \/ FetchFirst
    \/ DaaCall
    \/ DaaStep
    \/ DaaReturn
    \/ BaselineCall
    \/ BaselineStep
    \/ BaselineReturn
    \/ DbChange
    \/ FetchFinal
    \/ FinalSort
    \/ FinalStep
    \/ FinalDone
    \/ Report

Spec == Init /\ [][Next]_vars

-----------------------------------------------------------------------------
(* The two allocators called on their own                                  *)

\* run_daa_optimization(inventory_list, budget_limit) followed by
\* run_baseline_optimization(inventory_list, budget_limit), for any list of
\* Products, the empty one included, and any number as budget_limit.
InitAllocators ==
    /\ pc = "daa_call"
    /\ db \in Tables
    /\ inventory_items = Products(db)
    /\ all_items_ranked = << >>
    /\ \E typed \in BudgetInputs :
          /\ typed.kind = "number"
          /\ budget_str = typed
          /\ DAILY_BUDGET = Round(typed.text)
    /\ sorted_list = << >>
    /\ idx = 1
    /\ current_budget = 0
    /\ total_cost_spent = 0
    /\ total_expected_profit = 0
    /\ optimized = Unset
    /\ baseline = Unset
    /\ final_inventory = << >>
    /\ final_idx = 1
    /\ selected = << >>
    /\ rejected = << >>
    /\ final_budget = 0
    /\ total_cost_spent_final = 0
    /\ total_expected_profit_final = 0
    /\ log_calls = << >>
    /\ db_changed = FALSE

NextAllocators ==
    \/ DaaCall
    \/ DaaStep
    \/ DaaReturn
    \/ BaselineCall
    \/ BaselineStep
    \/ BaselineReturn

SpecAllocators == InitAllocators /\ [][NextAllocators]_vars

-----------------------------------------------------------------------------
(* Properties                                                              *)

AllCostsNonNegative(list) ==
    \A k \in 1 .. Len(list) : list[k].order_cost >= 0

AllValuesNonNegative(list) ==
    \A k \in 1 .. Len(list) : list[k].order_value >= 0

RECURSIVE Names(_)
Names(list) ==
    IF list = << >> THEN << >>
    ELSE << Head(list).name >> \o Names(Tail(list))

\* C1: for a budget B >= 0 and candidates with orderCost >= 0, the cost the
\* greedy allocator has spent is <= B after every step of its loop and in
\* the value it returns, in run_daa_optimization and in the final pass.
C1_SpentWithinBudget ==
    /\ (pc = "daa_loop" /\ AllCostsNonNegative(sorted_list))
          => total_cost_spent <= DAILY_BUDGET
    /\ (pc = "baseline_call" /\ AllCostsNonNegative(inventory_items))
          => optimized.cost <= DAILY_BUDGET
    /\ (pc \in {"final_loop", "report", "done"}
            /\ AllCostsNonNegative(final_inventory))
          => total_cost_spent_final <= DAILY_BUDGET

\* C2: in the greedy pass an item is selected exactly when its orderCost is
\* <= the budget remaining just before it is evaluated and rejected exactly
\* when it is greater; a single item costing exactly the budget is selected
\* and leaves a remaining budget of 0.
C2_AcceptanceRule ==
    [][ /\ (pc = "final_loop" /\ final_idx <= Len(final_inventory)) =>
              LET item == final_inventory[final_idx]
              IN  /\ (item.order_cost <= final_budget)
                        <=> (selected' = Append(selected, item))
                  /\ (item.order_cost > final_budget)
                        <=> (rejected' = Append(rejected, item))
                  /\ (Len(final_inventory) = 1
                        /\ item.order_cost = DAILY_BUDGET)
                        => (selected' = << item >> /\ final_budget' = 0)
        /\ (pc = "daa_loop" /\ idx <= Len(sorted_list)) =>
              LET item == sorted_list[idx]
              IN  /\ (item.order_cost <= current_budget) =>
                        /\ total_cost_spent' =
                               Round(total_cost_spent + item.order_cost)
                        /\ total_expected_profit' =
                               Round(total_expected_profit + item.order_value)
                        /\ current_budget' =
                               Round(current_budget - item.order_cost)
                  /\ (item.order_cost > current_budget) =>
                        UNCHANGED << total_cost_spent, total_expected_profit,
                                     current_budget >>
                  /\ (Len(sorted_list) = 1 /\ item.order_cost = DAILY_BUDGET)
                        => (current_budget' = 0
                              /\ total_cost_spent' = DAILY_BUDGET)
      ]_vars

\* C2 witness: a single item whose cost equals a positive budget has been
\* selected by the final pass and nothing remains.
C2_Witness ==
    /\ pc = "report"
    /\ Len(final_inventory) = 1
    /\ DAILY_BUDGET > 0
    /\ selected = final_inventory
    /\ selected[1].order_cost = DAILY_BUDGET
    /\ final_budget = 0

\* The candidates and budget of Scenario C.
ScenarioC(list) ==
    /\ Names(list) = << "X", "Y", "Z" >>
    /\ << list[1].order_cost, list[1].order_value >> = << 100, 90 >>
    /\ << list[2].order_cost, list[2].order_value >> = << 60, 30 >>
    /\ << list[3].order_cost, list[3].order_value >> = << 50, 20 >>
    /\ DAILY_BUDGET = 150

\* C3: in Scenario C the greedy allocator evaluates X, Y, Z (X accepted,
\* 50 left; Y rejected; Z accepted, 0 left), selects X and Z with cost 150
\* and profit 110; the baseline evaluates Z, Y, X (Z accepted, 100 left; Y
\* accepted, 40 left; X rejected), with cost 110 and profit 50.
C3_ScenarioC ==
    /\ (pc = "daa_loop" /\ ScenarioC(inventory_items)) =>
          /\ Names(sorted_list) = << "X", "Y", "Z" >>
          /\ idx = 2 => current_budget = 50
          /\ idx = 3 => current_budget = 50
          /\ idx = 4 => /\ current_budget = 0
                        /\ total_cost_spent = 150
                        /\ total_expected_profit = 110
    /\ (pc = "baseline_loop" /\ ScenarioC(inventory_items)) =>
          /\ Names(sorted_list) = << "Z", "Y", "X" >>
          /\ optimized = [profit |-> 110, cost |-> 150]
          /\ idx = 2 => current_budget = 100
          /\ idx = 3 => current_budget = 40
          /\ idx = 4 => /\ current_budget = 40
                        /\ total_cost_spent = 110
                        /\ total_expected_profit = 50
    /\ (pc = "final_fetch" /\ ScenarioC(inventory_items)) =>
          baseline = [profit |-> 50, cost |-> 110]
    /\ (pc \in {"report", "done"} /\ ScenarioC(final_inventory)) =>
          /\ Names(selected) = << "X", "Z" >>
          /\ Names(rejected) = << "Y" >>
          /\ final_budget = 0
          /\ total_cost_spent_final = 150
          /\ total_expected_profit_final = 110

\* C3 witness: both runs of Scenario C have returned and the logged pass
\* has evaluated the same three candidates.
C3_Witness ==
    /\ pc = "report"
    /\ ScenarioC(inventory_items)
    /\ ScenarioC(final_inventory)
    /\ optimized = [profit |-> 110, cost |-> 150]
    /\ baseline = [profit |-> 50, cost |-> 110]
    /\ Names(selected) = << "X", "Z" >>


\* Exact totals of the candidates at the positions in S, from position k on.
RECURSIVE CostOf(_, _, _)
CostOf(list, S, k) ==
    IF k > Len(list) THEN 0
    ELSE (IF k \in S THEN list[k].order_cost ELSE 0) + CostOf(list, S, k + 1)

RECURSIVE ValueOf(_, _, _)
ValueOf(list, S, k) ==
    IF k > Len(list) THEN 0
    ELSE (IF k \in S THEN list[k].order_value ELSE 0)
            + ValueOf(list, S, k + 1)

\* The largest sum of orderValue over the subsets that cost <= budget.
BestProfit(list, budget) ==
    LET feasible == { S \in SUBSET (1 .. Len(list)) :
                         CostOf(list, S, 1) <= budget }
        values   == { ValueOf(list, S, 1) : S \in feasible }
    IN  CHOOSE v \in values : \A w \in values : w <= v

\* The totals of one forward pass over a ranked list: an item is taken when
\* its cost is <= what is left.
RECURSIVE GreedyPass(_, _, _, _)
GreedyPass(ranked, left, cost, profit) ==
    IF ranked = << >> THEN [profit |-> profit, cost |-> cost]
    ELSE LET item == Head(ranked)
         IN  IF item.order_cost <= left
             THEN GreedyPass(Tail(ranked), Round(left - item.order_cost),
                             Round(cost + item.order_cost),
                             Round(profit + item.order_value))
             ELSE GreedyPass(Tail(ranked), left, cost, profit)

Position(list, item) == CHOOSE k \in 1 .. Len(list) : list[k] = item

\* output holds the items of input by priority score descending, items of
\* equal score in their input order.
StableRankedDesc(input, output) ==
    /\ Len(output) = Len(input)
    /\ \A k \in 1 .. Len(input) : \E j \in 1 .. Len(output) :
          output[j] = input[k]
    /\ \A i, j \in 1 .. Len(output) : i < j =>
          LET si == calculate_priority_score(output[i])
              sj == calculate_priority_score(output[j])
          IN  /\ ~QLess(si, sj)
              /\ si = sj =>
                    Position(input, output[i]) < Position(input, output[j])

\* C5: the greedy ranking is by priorityScore descending and stable: items
\* of equal score are evaluated in their input order, in
\* run_daa_optimization and in the sort before the final logged pass.
C5_StableRanking ==
    /\ [](pc = "daa_loop" => StableRankedDesc(inventory_items, sorted_list))
    /\ [][pc = "final_sort" =>
             StableRankedDesc(final_inventory, final_inventory')]_vars

\* C5 witness: a ranking that moved items and holds two items of equal
\* positive score.
C5_Witness ==
    /\ pc = "daa_loop"
    /\ sorted_list # inventory_items
    /\ \E i, j \in 1 .. Len(sorted_list) :
          /\ i < j
          /\ sorted_list[i].order_cost > 0
          /\ sorted_list[j].order_cost > 0
          /\ calculate_priority_score(sorted_list[i])
                = calculate_priority_score(sorted_list[j])

Range(s) == { s[k] : k \in 1 .. Len(s) }

RECURSIVE ProfitOf(_, _)
ProfitOf(list, acc) ==
    IF list = << >> THEN acc
    ELSE ProfitOf(Tail(list), Round(acc + Head(list).order_value))

\* C6: an item with orderCost = 0 is selected whatever budget remains when
\* it is reached and its orderValue is counted in full; with budget 0 every
\* item with orderCost > 0 is rejected.
C6_ZeroCostAndZeroBudget ==
    pc \in {"final_loop", "report", "done"} =>
        /\ \A k \in 1 .. (final_idx - 1) :
              LET item == final_inventory[k]
              IN  /\ item.order_cost = 0 => item \in Range(selected)
                  /\ (DAILY_BUDGET = 0 /\ item.order_cost > 0)
                        => item \in Range(rejected)
        /\ total_expected_profit_final = ProfitOf(selected, 0)

\* C7: once the logged run is over, one Decision write has been attempted
\* for every candidate, whichever writes failed.
C7_OneWritePerCandidate ==
    pc \in {"report", "done", "crashed"} =>
        /\ Len(log_calls) = Len(final_inventory)
        /\ \A k \in 1 .. Len(log_calls) :
              log_calls[k].product_id = final_inventory[k].product_id

\* Writes that did not persist, and what the caller of log_order_decision
\* was told about them.
FailedWrites == { k \in 1 .. Len(log_calls) : ~log_calls[k].persisted }
SurfacedFailures ==
    { k \in 1 .. Len(log_calls) : log_calls[k].returned # "None" }

\* C8: after a run in which k writes failed, the caller holds a value from
\* which k can be read.
C8_FailedWritesSurfaced ==
    pc \in {"report", "done"} =>
        Cardinality(SurfacedFailures) = Cardinality(FailedWrites)

AllocationPositions ==
    { "daa_call", "daa_loop", "baseline_call", "baseline_loop",
      "final_fetch", "final_sort", "final_loop", "report", "done" }

\* C9: no allocation loop is reached with a negative budget: the budget the
\* loops start from is the number typed last, and it is >= 0.
C9_NoNegativeBudget ==
    /\ pc \in AllocationPositions =>
          /\ DAILY_BUDGET >= 0
          /\ budget_str.kind = "number"
          /\ budget_str.text >= 0
    /\ (pc \in {"daa_loop", "baseline_loop"} /\ idx = 1) =>
          (current_budget = DAILY_BUDGET /\ current_budget >= 0)
    /\ (pc = "final_loop" /\ final_idx = 1) =>
          (final_budget = DAILY_BUDGET /\ final_budget >= 0)

\* C9 witness: a negative budget was typed and the prompt is asking again.
C9_Witness ==
    /\ pc = "get_budget_input"
    /\ budget_str.kind = "number"
    /\ budget_str.text < 0

NonNegativeProduct(item) ==
    /\ item.reorder_quantity >= 0
    /\ item.unit_cost >= 0
    /\ item.unit_price >= 0
    /\ item.order_cost >= 0

\* C10: no Product with a negative quantity, cost or price (hence none with
\* orderCost < 0) is evaluated by the greedy or the baseline pass.
C10_NoNegativeRowEvaluated ==
    /\ pc \in {"daa_loop", "baseline_loop"} =>
          \A k \in 1 .. Len(sorted_list) : NonNegativeProduct(sorted_list[k])
    /\ pc = "final_loop" =>
          \A k \in 1 .. Len(final_inventory) :
              NonNegativeProduct(final_inventory[k])


\* C11: no allocation pass runs on a snapshot whose fetch failed or was only
\* partly read: the greedy and baseline runs work on every row the first
\* query returns, the logged pass on every row the second query returns.
C11_NoAllocationAfterFailedFetch ==
    /\ pc \in {"daa_call", "daa_loop", "baseline_call", "baseline_loop"} =>
          inventory_items = Products(db)
    /\ pc \in {"final_sort", "final_loop"} =>
          Range(final_inventory) = Range(Products(db))


\* Both fetches of the run read every row their query returned (at most one
\* row has left the result in between).
BothFetchesComplete ==
    /\ Len(inventory_items) = Len(db) + (IF db_changed THEN 1 ELSE 0)
    /\ Range(final_inventory) = Range(Products(db))

\* C12: the greedy run of the comparison, the baseline run and the logged
\* greedy pass evaluate the same items with the same values, so the totals
\* of the comparison equal the totals of the logged pass (stated for runs
\* whose two fetches both succeeded, where it already fails).
C12_SameSnapshot ==
    (pc \in {"report", "done"} /\ BothFetchesComplete) =>
        /\ Range(final_inventory) = Range(inventory_items)
        /\ optimized.profit = total_expected_profit_final
        /\ optimized.cost = total_cost_spent_final


\* C13: called on an empty list, run_daa_optimization and
\* run_baseline_optimization evaluate nothing and return totalCostSpent 0
\* and totalExpectedProfit 0, for any budget.
C13_EmptyCandidateSet ==
    inventory_items = << >> =>
        /\ pc \in {"daa_loop", "baseline_loop"} =>
              /\ sorted_list = << >>
              /\ idx > Len(sorted_list)
              /\ current_budget = DAILY_BUDGET
              /\ total_cost_spent = 0
              /\ total_expected_profit = 0
        /\ pc \in {"baseline_call", "baseline_loop", "final_fetch"} =>
              optimized = [profit |-> 0, cost |-> 0]
        /\ pc = "final_fetch" =>
              baseline = [profit |-> 0, cost |-> 0]

\* C13 witness: both functions have returned for the empty list and a
\* positive budget.
C13_Witness ==
    /\ pc = "final_fetch"
    /\ inventory_items = << >>
    /\ DAILY_BUDGET > 0
    /\ optimized = [profit |-> 0, cost |-> 0]
    /\ baseline = [profit |-> 0, cost |-> 0]


RECURSIVE RankedNames(_)
RankedNames(frame) ==
    IF frame = << >> THEN << >>
    ELSE << Head(frame).name >> \o RankedNames(Tail(frame))

\* C14: the ranked list handed to the report names the items in exactly the
\* order in which the logged greedy pass evaluated them, items of equal
\* priority_score included (stated for runs whose two fetches both
\* succeeded, where it already fails).
C14_ReportOrderIsEvaluationOrder ==
    (pc = "done" /\ BothFetchesComplete) =>
        RankedNames(all_items_ranked) = Names(final_inventory)


\* Every call of log_order_decision of the final loop agrees with the list
\* its item was appended to, and every listed item has its call.
RecordsMatchOutcome ==
    /\ Len(log_calls) = Len(selected) + Len(rejected)
    /\ \A k \in 1 .. Len(log_calls) :
          LET record == log_calls[k]
              item   == final_inventory[k]
          IN  /\ record.product_id = item.product_id
              /\ record.run_type = "OPTIMIZED"
              /\ item \in Range(selected) =>
                    /\ record.status = "SELECTED"
                    /\ record.budget_cost = item.order_cost
              /\ item \in Range(rejected) =>
                    /\ record.status = "REJECTED"
                    /\ record.budget_cost = 0
              /\ item \in Range(selected) \/ item \in Range(rejected)

\* The sum of budget_cost over the SELECTED records, as a sum of numbers.
RECURSIVE SumSelected(_)
SumSelected(log) ==
    IF log = << >> THEN 0
    ELSE (IF Head(log).status = "SELECTED" THEN Head(log).budget_cost ELSE 0)
         + SumSelected(Tail(log))

\* The same sum accumulated in floats, record by record in log order.
RECURSIVE FloatSumSelected(_, _)
FloatSumSelected(log, acc) ==
    IF log = << >> THEN acc
    ELSE FloatSumSelected(Tail(log),
             IF Head(log).status = "SELECTED"
             THEN FAdd(acc, Head(log).budget_cost) ELSE acc)

\* C15: every Decision record of the logged run matches the outcome of its
\* item (selected: SELECTED, budget_cost = order_cost, OPTIMIZED; rejected:
\* REJECTED, budget_cost 0), and after a run with no failed write the sum of
\* budget_cost over the SELECTED records equals total_cost_spent_final.
C15_RecordsMatchAllocation ==
    /\ pc \in {"final_loop", "crashed", "report", "done"} =>
          RecordsMatchOutcome
    /\ (pc \in {"report", "done"} /\ FailedWrites = {}) =>
          SumSelected(log_calls) = total_cost_spent_final

\* Accumulated in floats in log order, the SELECTED records do give
\* total_cost_spent_final: the records are exact, the running total is not.
FloatSumMatchesTotal ==
    (pc \in {"report", "done"} /\ FailedWrites = {}) =>
        FloatSumSelected(log_calls, 0) = total_cost_spent_final

=============================================================================
